---- MODULE Spec2Model ----
(***************************************************************************)
(* Model of the Teams message relay: the token cache of auth.py, the       *)
(* paginated fetch of graph.py and the GET /messages handler of main.py.   *)
(*                                                                         *)
(* Every task is one asyncio task.  A task runs without interruption from  *)
(* one await to the next, so an action is the code between two awaits:     *)
(* the two awaits that matter are the POST to the identity provider        *)
(* (auth.py:73) and the GET of a page (graph.py:74).                       *)
(*                                                                         *)
(* Environment: the identity provider answers a successful exchange with   *)
(* a non-empty access_token string (tokens are the numbers 1, 2, ...) and  *)
(* an integer expires_in; the message API answers 2xx with a JSON object   *)
(* whose "value" is a list of objects.                                     *)
(***************************************************************************)
EXTENDS Integers, Sequences, FiniteSets, TLC

VARIABLES
    now,           \* time.time(), in seconds
    cache,         \* auth._token_cache: the cache object the global names
    afterClear,    \* clear_token_cache() ran and get_access_token() has not run since
    issued,        \* number of tokens the identity provider has issued
    pc,            \* per task: "idle", "exchange" (awaiting the POST), "page" (awaiting a GET), "done";
                   \* under SpecThreads also "set_token" and "set_token_old" (inside set_token)
    req,           \* per task: the parameters of its request
    tok,           \* per task: access_token of fetch_graph_messages
    all_messages,  \* per task: all_messages of fetch_graph_messages
    next_link,     \* per task: next_link of fetch_graph_messages
    lastPage,      \* per task: "value" of the last 2xx page it received
    answers,       \* per task: the answers to its page GETs, in order
    requested,     \* per task: the page URLs it has requested, in order
    posts,         \* per task: number of POSTs it has sent to the identity provider
    result         \* per task: what the call returned or raised

vars == <<now, cache, afterClear, issued, pc, req, tok, all_messages,
          next_link, lastPage, answers, requested, posts, result>>

-----------------------------------------------------------------------------
(* Bounds *)

\* the clock runs from 0 to MaxTime seconds
MaxTime == 4

\* a fetch requests at most MaxPages pages
MaxPages == 2

\* a page holds at most MaxPageLen messages
MaxPageLen == 1

(* Program constants *)

\* auth.py:38, the safety margin subtracted from expires_in
Buffer == 300

\* auth.py:82, expires_in when the identity provider's answer has none
DefaultExpiresIn == 3600

\* the two concurrent request tasks
Tasks == {1, 2}

\* None, for a token and for a link
NoToken == 0
NoLink == 0

-----------------------------------------------------------------------------
(* Texts.  A message text is a sequence of fragments; the handlers only    *)
(* ever ask whether a text contains one of a few marker substrings.        *)

\* texts that come from outside: a response body, the text of an exception
ExternalTexts == {"invalid_client", "Unauthorized request", "gateway timeout"}

\* the marker substrings a fragment contains ("timeout" is looked for in
\* the lower-cased text, main.py:158, the others as written)
Markers(fragment) ==
    CASE fragment = "Failed to authenticate: " -> {"Failed to authenticate"}
      [] fragment = "Unauthorized: Invalid or expired token"
            -> {"Unauthorized", "Invalid or expired token"}
      [] fragment = "Forbidden: Insufficient permissions to access messages. Required permissions: Channel.ReadBasic.All, ChannelMessage.Read.All, or Chat.Read.All"
            -> {"Forbidden", "Insufficient permissions"}
      [] fragment = "Not found: Team, channel, or chat does not exist" -> {"Not found"}
      [] fragment = "Request timeout: Microsoft Graph API did not respond in time"
            -> {"timeout"}
      [] fragment = "Unauthorized request" -> {"Unauthorized"}
      [] fragment = "gateway timeout" -> {"timeout"}
      [] OTHER -> {}

\* marker in text
Contains(text, marker) == \E i \in 1..Len(text) : marker \in Markers(text[i])

-----------------------------------------------------------------------------
(* auth.py: TokenCache *)

EmptyCache == [token |-> NoToken, expiry |-> 0, set_at |-> 0, expires_in |-> 0]

\* get_token with the comparison of auth.py:23 turned round
CacheGetTokenReversed(c, t) ==
    IF c.token # NoToken /\ t > c.expiry THEN c.token ELSE NoToken

\* TokenCache.get_token at time t: the token, or None
CacheGetToken(c, t) == IF c.token # NoToken /\ t < c.expiry THEN c.token ELSE NoToken

\* set_token without the safety margin of auth.py:38
CacheSetTokenNoBuffer(token, expires_in, t) ==
    [token |-> token, expiry |-> t + expires_in,
     set_at |-> t, expires_in |-> expires_in]

\* set_token that takes the safety margin only off a lifetime longer than it
CacheSetTokenShortLived(token, expires_in, t) ==
    [token |-> token,
     expiry |-> IF expires_in > Buffer THEN t + expires_in - Buffer ELSE t + expires_in,
     set_at |-> t, expires_in |-> expires_in]

\* TokenCache.set_token at time t (set_at and expires_in record the call)
CacheSetToken(token, expires_in, t) ==
    [token |-> token, expiry |-> t + expires_in - Buffer,
     set_at |-> t, expires_in |-> expires_in]

-----------------------------------------------------------------------------
(* Timestamps.  A timestamp string is [form, t]: form "Z" is an ISO-8601   *)
(* time with a trailing Z, "offset" one with +00:00, "naive" one without a *)
(* timezone designator, "bad" a string that is not ISO-8601, "none" an     *)
(* absent or empty string; t is the instant it names.                      *)

Times == {1, 2}

NoString == [form |-> "none", t |-> 0]
BadString == [form |-> "bad", t |-> 0]

\* the `since` values of a request (graph.py:37)
SinceVals == {NoString, BadString, [form |-> "Z", t |-> 2], [form |-> "naive", t |-> 2]}

\* the createdDateTime values of a message
CreatedVals == {NoString, BadString} \cup [form : {"Z", "naive"}, t : Times]

Messages == [createdDateTime : CreatedVals]

\* s.replace('Z', '+00:00')
ReplaceZ(s) == IF s.form = "Z" THEN [s EXCEPT !.form = "offset"] ELSE s

\* datetime.fromisoformat(s): the datetime, or ValueError
FromIsoFormat(s) ==
    CASE s.form = "offset" -> [raised |-> "", aware |-> TRUE, t |-> s.t]
      [] s.form = "naive" -> [raised |-> "", aware |-> FALSE, t |-> s.t]
      [] OTHER -> [raised |-> "ValueError", aware |-> FALSE, t |-> 0]

\* a >= b on datetimes: a bool, or TypeError when one is naive and one aware
DatetimeGe(a, b) ==
    IF a.aware # b.aware THEN [raised |-> "TypeError", value |-> FALSE]
    ELSE [raised |-> "", value |-> a.t >= b.t]

\* graph.py:94-104, one turn of the loop over the page's messages:
\* "keep", "drop", or "TypeError" when the comparison raises
FilterOne(msg, since_datetime) ==
    LET created_at_str == msg.createdDateTime
        created_at == FromIsoFormat(ReplaceZ(created_at_str))
        ge == DatetimeGe(created_at, since_datetime)
    IN  IF created_at_str.form = "none" THEN "drop"
        ELSE IF created_at.raised = "ValueError" THEN "keep"
        ELSE IF ge.raised # "" THEN ge.raised
        ELSE IF ge.value THEN "keep" ELSE "drop"

\* graph.py:92-105: the filtered page, or the exception the loop raised
RECURSIVE FilterMessages(_, _)
FilterMessages(messages, since_datetime) ==
    IF messages = <<>> THEN [raised |-> "", kept |-> <<>>]
    ELSE LET verdict == FilterOne(Head(messages), since_datetime)
             rest == FilterMessages(Tail(messages), since_datetime)
         IN  IF verdict \notin {"keep", "drop"} THEN [raised |-> verdict, kept |-> <<>>]
             ELSE IF rest.raised # "" THEN rest
             ELSE IF verdict = "keep"
                  THEN [raised |-> "", kept |-> <<Head(messages)>> \o rest.kept]
                  ELSE rest

-----------------------------------------------------------------------------
(* Requests and errors *)

\* a request: which identifiers are supplied (non-empty), the `since` string,
\* and whether GET /messages is called or fetch_graph_messages directly
Params == [team_id : BOOLEAN, channel_id : BOOLEAN, chat_id : BOOLEAN,
           since : SinceVals, entry : {"endpoint", "fetcher"}]

NoParams == [team_id |-> FALSE, channel_id |-> FALSE, chat_id |-> FALSE,
             since |-> NoString, entry |-> "endpoint"]

\* main.py:99-116: the status of the HTTPException raised, or 0
MainValidate(p) ==
    IF p.chat_id /\ (p.team_id \/ p.channel_id) THEN 400
    ELSE IF ~p.chat_id /\ ~(p.team_id /\ p.channel_id) THEN 400
    ELSE IF (p.team_id /\ ~p.channel_id) \/ (p.channel_id /\ ~p.team_id) THEN 400
    ELSE 0

\* the validation of graph.py:35-42 without the test of graph.py:36
FetchValidateChatWins(p) ==
    IF p.chat_id THEN <<>>
    ELSE IF p.team_id /\ p.channel_id THEN <<>>
    ELSE <<"Must provide either chat_id OR both team_id and channel_id">>

\* graph.py:35-42: the text of the ValueError raised, or <<>>
FetchValidate(p) ==
    IF p.chat_id
    THEN IF p.team_id \/ p.channel_id
         THEN <<"Cannot specify both chat_id and team_id/channel_id">>
         ELSE <<>>
    ELSE IF p.team_id /\ p.channel_id THEN <<>>
    ELSE <<"Must provide either chat_id OR both team_id and channel_id">>

\* main.py:131-169: the status GET /messages answers with when the body of
\* its try block raised exc with this text
MapException(exc, text) ==
    IF exc = "ValueError" THEN 400
    ELSE IF Contains(text, "Unauthorized") \/ Contains(text, "Invalid or expired token")
         THEN 401
    ELSE IF Contains(text, "Forbidden") \/ Contains(text, "Insufficient permissions")
         THEN 403
    ELSE IF Contains(text, "Not found") THEN 404
    ELSE IF Contains(text, "timeout") THEN 504
    ELSE 500

\* graph.py:124-128: the last except clause of the page loop's try block
GraphReraise(exc, text) ==
    IF \/ Contains(text, "Failed to authenticate")
       \/ Contains(text, "Unauthorized")
       \/ Contains(text, "Forbidden")
    THEN [exc |-> exc, text |-> text]
    ELSE [exc |-> "Exception", text |-> <<"Failed to fetch messages: ">> \o text]

NoResult == [kind |-> "none", exc |-> "", text |-> <<>>, http |-> 0,
             count |-> 0, messages |-> <<>>]

\* the call of request p raised exc with this text out of
\* fetch_graph_messages: what the caller sees (main.py:131-169 at the endpoint)
Raised(p, exc, text) ==
    [kind |-> "error", exc |-> exc, text |-> text,
     http |-> IF p.entry = "endpoint" THEN MapException(exc, text) ELSE 0,
     count |-> 0, messages |-> <<>>]

\* main.py:99-116 raised HTTPException(status), re-raised at main.py:131-133
Rejected(status) ==
    [kind |-> "error", exc |-> "HTTPException", text |-> <<>>, http |-> status,
     count |-> 0, messages |-> <<>>]

\* fetch_graph_messages returned messages (graph.py:131, main.py:126-129)
Returned(p, messages) ==
    [kind |-> "ok", exc |-> "", text |-> <<>>,
     http |-> IF p.entry = "endpoint" THEN 200 ELSE 0,
     count |-> Len(messages), messages |-> messages]

-----------------------------------------------------------------------------
(* The state machine *)

\* the URL of the first page (graph.py:38-40); page k links to page k + 1
EndpointUrl == 1

\* all message lists a page can hold
PageBodies == UNION {[1..n -> Messages] : n \in 0..MaxPageLen}

\* what the identity provider may put in expires_in
ExpiresInVals == {Buffer - 1, Buffer, Buffer + 1, Buffer + 2}

\* the failure statuses of the identity provider and of the message API
ExchangeFailStatuses == {400, 401, 500}
PageFailStatuses == {401, 403, 404, 500}

\* what "@odata.nextLink" of the page at url may be: absent, the URL of a
\* further page, or one of the links back to an earlier page in BackLinks
ContinuationLinks(url, BackLinks) == {NoLink, url + 1} \cup BackLinks

\* since_datetime of graph.py:59-65 for a `since` that parses or is absent
SinceGiven(p) == p.since.form # "none"
SinceDatetime(p) == FromIsoFormat(ReplaceZ(p.since))

Init ==
    /\ now = 0
    /\ cache = EmptyCache
    /\ afterClear = FALSE
    /\ issued = 0
    /\ pc = [r \in Tasks |-> "idle"]
    /\ req = [r \in Tasks |-> NoParams]
    /\ tok = [r \in Tasks |-> NoToken]
    /\ all_messages = [r \in Tasks |-> <<>>]
    /\ next_link = [r \in Tasks |-> NoLink]
    /\ lastPage = [r \in Tasks |-> <<>>]
    /\ answers = [r \in Tasks |-> <<>>]
    /\ requested = [r \in Tasks |-> <<>>]
    /\ posts = [r \in Tasks |-> 0]
    /\ result = [r \in Tasks |-> NoResult]

\* the call of task r ends with res
Finish(r, res) ==
    /\ pc' = [pc EXCEPT ![r] = "done"]
    /\ result' = [result EXCEPT ![r] = res]

\* graph.py:51-74: fetch_graph_messages from the moment it holds a token
\* to its first await, the GET of the first page
WithToken(r, p, token) ==
    /\ tok' = [tok EXCEPT ![r] = token]
    /\ IF SinceGiven(p) /\ SinceDatetime(p).raised = "ValueError"
       THEN /\ Finish(r, Raised(p, "ValueError", <<"Invalid ISO 8601 timestamp format: ">>))
            /\ UNCHANGED <<all_messages, next_link, requested>>
       ELSE /\ all_messages' = [all_messages EXCEPT ![r] = <<>>]
            /\ next_link' = [next_link EXCEPT ![r] = EndpointUrl]
            /\ requested' = [requested EXCEPT ![r] = Append(@, EndpointUrl)]
            /\ pc' = [pc EXCEPT ![r] = "page"]
            /\ UNCHANGED result

\* the lock is never taken from the caller
LockIgnored == TRUE

\* auth.py:17, 22, 35: the lock of the TokenCache the global names can be
\* acquired; it is held by the task that is inside set_token on that object
LockFree == \A q \in Tasks : pc[q] # "set_token"

\* main.py:97-124, graph.py:35-49, auth.py:56-73: a request arrives and runs
\* to its first await or to its end
Call(r, P) ==
    /\ pc[r] = "idle"
    /\ \E p \in P :
        /\ req' = [req EXCEPT ![r] = p]
        /\ IF p.entry = "endpoint" /\ MainValidate(p) # 0
           THEN /\ Finish(r, Rejected(MainValidate(p)))
                /\ UNCHANGED <<tok, all_messages, next_link, requested, posts, afterClear>>
           ELSE IF FetchValidate(p) # <<>>
           THEN /\ Finish(r, Raised(p, "ValueError", FetchValidate(p)))
                /\ UNCHANGED <<tok, all_messages, next_link, requested, posts, afterClear>>
           ELSE LET cached_token == CacheGetToken(cache, now)
                IN  /\ LockFree
                    /\ afterClear' = FALSE
                    /\ IF cached_token # NoToken
                       THEN /\ WithToken(r, p, cached_token)
                            /\ UNCHANGED posts
                       ELSE /\ posts' = [posts EXCEPT ![r] = @ + 1]
                            /\ pc' = [pc EXCEPT ![r] = "exchange"]
                            /\ UNCHANGED <<tok, all_messages, next_link, requested, result>>
    /\ UNCHANGED <<now, cache, issued, lastPage, answers>>

\* the exchange ends, but a credential that is still valid is not replaced
ExchangeOkFirstWins(r) ==
    /\ pc[r] = "exchange"
    /\ \E expires_in \in ExpiresInVals \cup {DefaultExpiresIn} :
        LET access_token == issued + 1
        IN  /\ issued' = issued + 1
            /\ cache' = IF CacheGetToken(cache, now) # NoToken THEN cache
                         ELSE CacheSetToken(access_token, expires_in, now)
            /\ WithToken(r, req[r], access_token)
    /\ UNCHANGED <<now, afterClear, req, lastPage, answers, posts>>

\* auth.py:78-87, graph.py:51-74: the identity provider answers 2xx with an
\* access_token; expires_in is one of ExpiresInVals or absent
ExchangeOk(r) ==
    /\ pc[r] = "exchange"
    /\ \E expires_in \in ExpiresInVals \cup {DefaultExpiresIn} :
        LET access_token == issued + 1
        IN  /\ issued' = issued + 1
            /\ cache' = CacheSetToken(access_token, expires_in, now)
            /\ WithToken(r, req[r], access_token)
    /\ UNCHANGED <<now, afterClear, req, lastPage, answers, posts>>

\* a failed exchange also empties the token cache
AuthFailedClearsCache(r, text) ==
    /\ Finish(r, Raised(req[r], "Exception", <<"Failed to authenticate: ">> \o text))
    /\ cache' = EmptyCache
    /\ UNCHANGED <<now, afterClear, issued, req, tok, all_messages,
                   next_link, lastPage, answers, requested, posts>>

\* the exception get_access_token raised reaches the caller through
\* graph.py:47-49
AuthFailed(r, text) ==
    /\ Finish(r, Raised(req[r], "Exception", <<"Failed to authenticate: ">> \o text))
    /\ UNCHANGED <<now, cache, afterClear, issued, req, tok, all_messages,
                   next_link, lastPage, answers, requested, posts>>

\* auth.py:78, 89-97: the identity provider answers with a failure status
ExchangeStatusError(r) ==
    /\ pc[r] = "exchange"
    /\ \E status \in ExchangeFailStatuses, body \in ExternalTexts :
        AuthFailed(r, <<"Authentication failed: ", ToString(status), " - ", body>>)

\* auth.py:81, 99-101: a 2xx answer without access_token (KeyError)
ExchangeNoToken(r) ==
    /\ pc[r] = "exchange"
    /\ AuthFailed(r, <<"Failed to obtain access token: ", "'access_token'">>)

\* auth.py:73, 99-101: the POST fails in transport
ExchangeTransportError(r) ==
    /\ pc[r] = "exchange"
    /\ \E cause \in ExternalTexts :
        AuthFailed(r, <<"Failed to obtain access token: ", cause>>)

\* the statuses of graph.py:76-83 left to raise_for_status() of graph.py:85
PageStatusRaiseGeneric(status, body) ==
    [exc |-> "Exception",
     text |-> <<"Graph API error: ", ToString(status), " - ", body>>]

\* graph.py:76-86: the exception a failure status raises inside the try
\* block, as the except clauses of graph.py:117-128 let it out
PageStatusRaise(status, body) ==
    CASE status = 401 ->
            GraphReraise("Exception", <<"Unauthorized: Invalid or expired token">>)
      [] status = 403 ->
            GraphReraise("Exception", <<"Forbidden: Insufficient permissions to access messages. Required permissions: Channel.ReadBasic.All, ChannelMessage.Read.All, or Chat.Read.All">>)
      [] status = 404 ->
            GraphReraise("Exception", <<"Not found: Team, channel, or chat does not exist">>)
      [] OTHER ->
            [exc |-> "Exception",
             text |-> <<"Graph API error: ", ToString(status), " - ", body>>]

\* graph.py:113-116: a transport failure of the GET
PageTransportRaise(kind, cause) ==
    IF kind = "TimeoutException"
    THEN [exc |-> "Exception",
          text |-> <<"Request timeout: Microsoft Graph API did not respond in time">>]
    ELSE [exc |-> "Exception",
          text |-> <<"Network error while contacting Microsoft Graph API: ", cause>>]

\* the page loop ends on a failure by returning what it has so far
PageFailedPartial(r, answer, e) ==
    /\ answers' = [answers EXCEPT ![r] = Append(@, answer)]
    /\ Finish(r, Returned(req[r], all_messages[r]))
    /\ UNCHANGED <<now, cache, afterClear, issued, req, tok, all_messages,
                   next_link, lastPage, requested, posts>>

\* a failed GET is sent again instead of ending the page loop
PageFailedRetry(r, answer, e) ==
    /\ answers' = [answers EXCEPT ![r] = Append(@, answer)]
    /\ Len(requested[r]) < MaxPages
    /\ requested' = [requested EXCEPT ![r] = Append(@, next_link[r])]
    /\ UNCHANGED <<now, cache, afterClear, issued, pc, req, tok, all_messages,
                   next_link, lastPage, posts, result>>

\* a failure of the message API also empties the token cache
PageFailedClearsCache(r, answer, e) ==
    /\ answers' = [answers EXCEPT ![r] = Append(@, answer)]
    /\ Finish(r, Raised(req[r], e.exc, e.text))
    /\ cache' = EmptyCache
    /\ UNCHANGED <<now, afterClear, issued, req, tok, all_messages,
                   next_link, lastPage, requested, posts>>

\* the page loop ends with an exception
PageFailed(r, answer, e) ==
    /\ answers' = [answers EXCEPT ![r] = Append(@, answer)]
    /\ Finish(r, Raised(req[r], e.exc, e.text))
    /\ UNCHANGED <<now, cache, afterClear, issued, req, tok, all_messages,
                   next_link, lastPage, requested, posts>>

\* graph.py:74-86, 117-128: the message API answers a GET with a failure status
PageStatusError(r) ==
    /\ pc[r] = "page"
    /\ \E status \in PageFailStatuses, body \in ExternalTexts :
        PageFailed(r, ToString(status), PageStatusRaise(status, body))

\* graph.py:74, 113-116: the GET times out or fails in the network
PageTransportError(r) ==
    /\ pc[r] = "page"
    /\ \E kind \in {"TimeoutException", "NetworkError"}, cause \in ExternalTexts :
        PageFailed(r, kind, PageTransportRaise(kind, cause))

\* the page loop with a ceiling of one page: it ends after the first page
\* whether or not the page has a continuation link
PageOkCeiling(r, Bodies, BackLinks) ==
    /\ pc[r] = "page"
    /\ \E messages \in Bodies, link \in ContinuationLinks(next_link[r], BackLinks) :
        LET p == req[r]
            filtered == IF SinceGiven(p)
                        THEN FilterMessages(messages, SinceDatetime(p))
                        ELSE [raised |-> "", kept |-> messages]
            e == GraphReraise(filtered.raised,
                    <<"can't compare offset-naive and offset-aware datetimes">>)
        IN  /\ link # NoLink => Len(requested[r]) < MaxPages
            /\ answers' = [answers EXCEPT ![r] = Append(@, "200")]
            /\ lastPage' = [lastPage EXCEPT ![r] = messages]
            /\ IF filtered.raised # ""
               THEN /\ Finish(r, Raised(p, e.exc, e.text))
                    /\ UNCHANGED <<all_messages, next_link, requested>>
               ELSE /\ all_messages' = [all_messages EXCEPT ![r] = @ \o filtered.kept]
                    /\ next_link' = [next_link EXCEPT ![r] = link]
                    /\ Finish(r, Returned(p, all_messages'[r]))
                    /\ UNCHANGED requested
    /\ UNCHANGED <<now, cache, afterClear, issued, req, tok, posts>>

\* graph.py:74-109, 124-131: the message API answers a GET with 2xx; the page
\* is filtered and appended, and the loop goes on to the next GET or ends
PageOk(r, Bodies, BackLinks) ==
    /\ pc[r] = "page"
    /\ \E messages \in Bodies, link \in ContinuationLinks(next_link[r], BackLinks) :
        LET p == req[r]
            filtered == IF SinceGiven(p)
                        THEN FilterMessages(messages, SinceDatetime(p))
                        ELSE [raised |-> "", kept |-> messages]
            e == GraphReraise(filtered.raised,
                    <<"can't compare offset-naive and offset-aware datetimes">>)
        IN  /\ link # NoLink => Len(requested[r]) < MaxPages
            /\ answers' = [answers EXCEPT ![r] = Append(@, "200")]
            /\ lastPage' = [lastPage EXCEPT ![r] = messages]
            /\ IF filtered.raised # ""
               THEN /\ Finish(r, Raised(p, e.exc, e.text))
                    /\ UNCHANGED <<all_messages, next_link, requested>>
               ELSE /\ all_messages' = [all_messages EXCEPT ![r] = @ \o filtered.kept]
                    /\ next_link' = [next_link EXCEPT ![r] = link]
                    /\ IF link # NoLink
                       THEN /\ requested' = [requested EXCEPT ![r] = Append(@, link)]
                            /\ UNCHANGED <<pc, result>>
                       ELSE /\ Finish(r, Returned(p, all_messages'[r]))
                            /\ UNCHANGED requested
    /\ UNCHANGED <<now, cache, afterClear, issued, req, tok, posts>>

\* auth.py:104-107: clear_token_cache(); a set_token in progress stays with
\* the TokenCache object it was called on, which the global no longer names
ClearTokenCache ==
    /\ cache' = EmptyCache
    /\ afterClear' = TRUE
    /\ pc' = [q \in Tasks |-> IF pc[q] = "set_token" THEN "set_token_old" ELSE pc[q]]
    /\ UNCHANGED <<now, issued, req, tok, all_messages, next_link, lastPage,
                   answers, requested, posts, result>>

\* a second passes
Tick ==
    /\ now < MaxTime
    /\ now' = now + 1
    /\ UNCHANGED <<cache, afterClear, issued, pc, req, tok, all_messages, next_link,
                   lastPage, answers, requested, posts, result>>

-----------------------------------------------------------------------------
(* Spec: two concurrent requests at the endpoint for a chat, the clock and  *)
(* clear_token_cache(); the pages are empty.                                *)

ChatParams == {p \in Params : /\ p.entry = "endpoint" /\ p.chat_id
                              /\ ~p.team_id /\ ~p.channel_id
                              /\ p.since.form \in {"none", "bad"}}

Next ==
    \/ \E r \in Tasks : Call(r, ChatParams)
    \/ \E r \in Tasks : ExchangeOk(r)
    \/ \E r \in Tasks : ExchangeStatusError(r)
    \/ \E r \in Tasks : ExchangeNoToken(r)
    \/ \E r \in Tasks : ExchangeTransportError(r)
    \/ \E r \in Tasks : PageOk(r, {<<>>}, {})
    \/ \E r \in Tasks : PageStatusError(r)
    \/ \E r \in Tasks : PageTransportError(r)
    \/ ClearTokenCache
    \/ Tick

Spec == Init /\ [][Next]_vars

-----------------------------------------------------------------------------
(* SpecFetch: one request with any parameters and any pages, starting with  *)
(* the cache empty or holding a credential of an earlier exchange.          *)

InitFetch ==
    /\ now = 0
    /\ \/ cache = EmptyCache /\ issued = 0
       \/ cache = CacheSetToken(1, DefaultExpiresIn, 0) /\ issued = 1
    /\ afterClear = FALSE
    /\ pc = [r \in Tasks |-> "idle"]
    /\ req = [r \in Tasks |-> NoParams]
    /\ tok = [r \in Tasks |-> NoToken]
    /\ all_messages = [r \in Tasks |-> <<>>]
    /\ next_link = [r \in Tasks |-> NoLink]
    /\ lastPage = [r \in Tasks |-> <<>>]
    /\ answers = [r \in Tasks |-> <<>>]
    /\ requested = [r \in Tasks |-> <<>>]
    /\ posts = [r \in Tasks |-> 0]
    /\ result = [r \in Tasks |-> NoResult]

NextFetch ==
    \/ Call(1, Params)
    \/ ExchangeOk(1)
    \/ ExchangeStatusError(1)
    \/ ExchangeNoToken(1)
    \/ ExchangeTransportError(1)
    \/ PageOk(1, PageBodies, {})
    \/ PageStatusError(1)
    \/ PageTransportError(1)

SpecFetch == InitFetch /\ [][NextFetch]_vars

-----------------------------------------------------------------------------
(* SpecLoop: one request for a chat whose pages may link back to the first  *)
(* page; every POST and every GET is answered, by a response or by the       *)
(* failure of the call (httpx ends a GET after 30 seconds, graph.py:71).     *)

NextLoop ==
    \/ Call(1, ChatParams)
    \/ ExchangeOk(1)
    \/ ExchangeStatusError(1)
    \/ ExchangeNoToken(1)
    \/ ExchangeTransportError(1)
    \/ PageOk(1, {<<>>}, {EndpointUrl})
    \/ PageStatusError(1)
    \/ PageTransportError(1)

\* the answers to the call task 1 is awaiting
Answered ==
    \/ ExchangeOk(1) \/ ExchangeStatusError(1)
    \/ ExchangeNoToken(1) \/ ExchangeTransportError(1)
    \/ PageOk(1, {<<>>}, {EndpointUrl}) \/ PageStatusError(1) \/ PageTransportError(1)

SpecLoop == InitFetch /\ [][NextLoop]_vars /\ WF_vars(Answered)

-----------------------------------------------------------------------------
(* SpecThreads: the TokenCache used from threads.  set_token's two          *)
(* assignments (auth.py:36 and 38) are separate steps, with other calls'     *)
(* steps between them, and a task serves one request after another.          *)

MaxIssued == 3

\* auth.py:81-85, 35-36: the identity provider answers 2xx with an
\* access_token; set_token takes the lock and assigns the token
SetTokenBegin(r) ==
    /\ pc[r] = "exchange"
    /\ LockFree
    /\ issued < MaxIssued
    /\ issued' = issued + 1
    /\ tok' = [tok EXCEPT ![r] = issued + 1]
    /\ cache' = [cache EXCEPT !.token = issued + 1]
    /\ pc' = [pc EXCEPT ![r] = "set_token"]
    /\ UNCHANGED <<now, afterClear, req, all_messages, next_link, lastPage,
                   answers, requested, posts, result>>

\* auth.py:38, 87, graph.py:51-74: set_token assigns the expiry and releases
\* the lock, and the call goes on to its first GET; the assignment is lost
\* when clear_token_cache() has replaced the object in the meantime
SetTokenEnd(r) ==
    /\ pc[r] \in {"set_token", "set_token_old"}
    /\ \E expires_in \in ExpiresInVals \cup {DefaultExpiresIn} :
        cache' = IF pc[r] = "set_token"
                 THEN CacheSetToken(cache.token, expires_in, now)
                 ELSE cache
    /\ WithToken(r, req[r], tok[r])
    /\ UNCHANGED <<now, afterClear, issued, req, lastPage, answers, posts>>

\* main.py:119-129, 97: the task has answered its request and takes the next
NextRequest(r) ==
    /\ pc[r] = "done"
    /\ pc' = [pc EXCEPT ![r] = "idle"]
    /\ req' = [req EXCEPT ![r] = NoParams]
    /\ tok' = [tok EXCEPT ![r] = NoToken]
    /\ all_messages' = [all_messages EXCEPT ![r] = <<>>]
    /\ next_link' = [next_link EXCEPT ![r] = NoLink]
    /\ lastPage' = [lastPage EXCEPT ![r] = <<>>]
    /\ answers' = [answers EXCEPT ![r] = <<>>]
    /\ requested' = [requested EXCEPT ![r] = <<>>]
    /\ posts' = [posts EXCEPT ![r] = 0]
    /\ result' = [result EXCEPT ![r] = NoResult]
    /\ UNCHANGED <<now, cache, afterClear, issued>>

NextThreads ==
    \/ \E r \in Tasks : Call(r, ChatParams)
    \/ \E r \in Tasks : SetTokenBegin(r)
    \/ \E r \in Tasks : SetTokenEnd(r)
    \/ \E r \in Tasks : PageOk(r, {<<>>}, {})
    \/ \E r \in Tasks : NextRequest(r)
    \/ ClearTokenCache
    \/ Tick

SpecThreads == Init /\ [][NextThreads]_vars

-----------------------------------------------------------------------------
(* Steps and states the properties speak about *)

\* the request names exactly one target
TargetOk(p) == FetchValidate(p) = <<>> /\ (p.entry = "endpoint" => MainValidate(p) = 0)

\* this step is a call of task r that reaches get_access_token()
ReachesAuth(r) == pc[r] = "idle" /\ pc'[r] # "idle" /\ TargetOk(req'[r])

\* the cached credential is inside its validity window
CacheValid == cache.token # NoToken /\ now < cache.expiry

\* task r was served the cached token, without an exchange of its own
ServedFromCache(r) == posts[r] = 0 /\ tok[r] # NoToken /\ tok[r] = cache.token

-----------------------------------------------------------------------------
(* C1: while the cached credential is valid (now < expires_at, no clear in  *)
(* between) no step starts an exchange with the identity provider, and      *)
(* every get_access_token() call made then returns the cached token.        *)
C1_NoExchangeWhileValid ==
    [][CacheValid =>
         \A r \in Tasks : /\ posts'[r] = posts[r]
                          /\ ReachesAuth(r) => tok'[r] = cache.token]_vars

\* one task exchanged, and the other was then served its token from the cache
C1_Witness ==
    \E r, q \in Tasks : /\ ServedFromCache(r)
                        /\ posts[q] = 1 /\ tok[q] = cache.token

(* C2: a credential cached at set_at with expires_in = X is served exactly  *)
(* while now < set_at + X - 300: a call before that moment returns the      *)
(* cached token without an exchange, a call at that moment or later starts   *)
(* a new exchange.                                                           *)
C2_ServedExactlyWhileFresh ==
    [][\A r \in Tasks :
         ReachesAuth(r) /\ cache.token # NoToken =>
            IF now < cache.set_at + cache.expires_in - Buffer
            THEN posts'[r] = posts[r] /\ tok'[r] = cache.token
            ELSE posts'[r] = posts[r] + 1 /\ tok'[r] = NoToken]_vars

\* a credential with expires_in = 301 was served in the one second it is
\* valid for, set_at + X - 301
C2_Witness ==
    \E r \in Tasks : /\ ServedFromCache(r)
                     /\ cache.expires_in = Buffer + 1
                     /\ now = cache.set_at + cache.expires_in - (Buffer + 1)

(* C3: after clear_token_cache(), the next get_access_token() call performs *)
(* an exchange, whatever other calls are in progress.                       *)
C3_ClearForcesExchange ==
    [][\A r \in Tasks :
         afterClear /\ ReachesAuth(r) => posts'[r] = posts[r] + 1]_vars

-----------------------------------------------------------------------------
(* Claims about one fetch *)

\* this step is the answer 2xx to a page GET of task r
Page200(r) ==
    /\ Len(answers'[r]) = Len(answers[r]) + 1
    /\ answers'[r][Len(answers'[r])] = "200"

\* the last answer task r got to a page GET, "" before the first
LastAnswer(r) == IF answers[r] = <<>> THEN "" ELSE answers[r][Len(answers[r])]

\* the `since` of the request is not ISO-8601
MalformedSince(p) == p.since.form = "bad"

(* C4: a fetch whose `since` is malformed fails with the invalid-timestamp  *)
(* error (ValueError, HTTP 400) before any network call: no exchange with    *)
(* the identity provider and no page GET, whatever the token cache holds.    *)
C4_MalformedSinceNoNetwork ==
    \A r \in Tasks :
        pc[r] # "idle" /\ TargetOk(req[r]) /\ MalformedSince(req[r]) =>
            /\ posts[r] = 0
            /\ requested[r] = <<>>
            /\ pc[r] = "done"
            /\ result[r].exc = "ValueError"
            /\ req[r].entry = "endpoint" => result[r].http = 400

\* what the filter is to keep: a message whose createdDateTime is missing,
\* or does not parse, or names an instant >= since
KeptByPolicy(msg, since) ==
    LET created == FromIsoFormat(ReplaceZ(msg.createdDateTime))
    IN  \/ msg.createdDateTime.form = "none"
        \/ created.raised # ""
        \/ created.t >= FromIsoFormat(ReplaceZ(since)).t

\* the messages of a page that the policy keeps, in order
RECURSIVE PolicyFilter(_, _)
PolicyFilter(messages, since) ==
    IF messages = <<>> THEN <<>>
    ELSE (IF KeptByPolicy(Head(messages), since) THEN <<Head(messages)>> ELSE <<>>)
            \o PolicyFilter(Tail(messages), since)

(* C5: when `since` is supplied, a page that is filtered without an error   *)
(* adds to the aggregate exactly its messages whose createdDateTime is       *)
(* missing, or unparseable, or parses and is >= since.                       *)
C5_FilterFailOpen ==
    [][\A r \in Tasks :
         Page200(r) /\ SinceGiven(req[r]) /\ result'[r].kind # "error" =>
            all_messages'[r] =
                all_messages[r] \o PolicyFilter(lastPage'[r], req[r].since)]_vars

\* the exchange of task r failed
ExchangeFailed(r) == pc[r] = "done" /\ posts[r] = 1 /\ tok[r] = NoToken

(* C6: when the exchange with the identity provider fails, GET /messages    *)
(* answers with HTTP 401.                                                    *)
C6_ExchangeFailureIs401 ==
    \A r \in Tasks :
        ExchangeFailed(r) /\ req[r].entry = "endpoint" => result[r].http = 401

(* C7: a failed page fetch is classified by its kind at GET /messages:      *)
(* status 401 gives HTTP 401, 403 gives 403, 404 gives 404 and a timeout     *)
(* gives 504, on the first page and on every later one.                      *)
C7_PageFailureClassified ==
    \A r \in Tasks :
        pc[r] = "done" /\ req[r].entry = "endpoint" =>
            /\ LastAnswer(r) = "401" => result[r].http = 401
            /\ LastAnswer(r) = "403" => result[r].http = 403
            /\ LastAnswer(r) = "404" => result[r].http = 404
            /\ LastAnswer(r) = "TimeoutException" => result[r].http = 504

\* the second page of a request at the endpoint answered 404
C7_Witness ==
    \E r \in Tasks : /\ req[r].entry = "endpoint"
                     /\ Len(answers[r]) = 2 /\ LastAnswer(r) = "404"
                     /\ result[r].http = 404

(* C8: a failure on any page fetch ends the fetch at once: the call yields  *)
(* the error and no messages, whatever the earlier pages held, and requests  *)
(* no further page.                                                          *)
C8_FailureAborts ==
    \A r \in Tasks :
        LastAnswer(r) \notin {"", "200"} =>
            /\ pc[r] = "done"
            /\ result[r].kind = "error"
            /\ result[r].messages = <<>> /\ result[r].count = 0
            /\ Len(requested[r]) = Len(answers[r])

\* the second page failed with 401 after the first had brought a message
C8_Witness ==
    \E r \in Tasks : /\ Len(answers[r]) = 2 /\ LastAnswer(r) = "401"
                     /\ all_messages[r] # <<>>
                     /\ result[r].kind = "error"

\* the page's message list as the code filters it
CodeFilter(messages, p) ==
    IF SinceGiven(p) THEN FilterMessages(messages, SinceDatetime(p)).kept ELSE messages

(* C9: every page answered 2xx is appended, filtered or unfiltered, to the  *)
(* aggregate in page order, and when the chain ends the fetch returns the    *)
(* aggregate with count equal to its length.                                 *)
C9_ConcatenationReturned ==
    [][\A r \in Tasks :
         Page200(r) =>
            /\ result'[r].kind # "error"
            /\ all_messages'[r] = all_messages[r] \o CodeFilter(lastPage'[r], req[r])
            /\ next_link'[r] = NoLink =>
                 /\ result'[r].kind = "ok"
                 /\ result'[r].messages = all_messages'[r]
                 /\ result'[r].count = Len(all_messages'[r])]_vars

\* not exactly one target: chat_id with team_id or channel_id, or neither
\* chat_id nor the pair team_id and channel_id
NotOneTarget(p) ==
    \/ p.chat_id /\ (p.team_id \/ p.channel_id)
    \/ ~p.chat_id /\ ~(p.team_id /\ p.channel_id)

(* C10: a request that does not name exactly one target is rejected with    *)
(* the invalid-target error (ValueError from the fetcher, HTTP 400 at the    *)
(* endpoint) without an exchange and without a page GET.                     *)
C10_InvalidTargetRejected ==
    \A r \in Tasks :
        pc[r] # "idle" /\ NotOneTarget(req[r]) =>
            /\ pc[r] = "done"
            /\ posts[r] = 0 /\ requested[r] = <<>>
            /\ req[r].entry = "fetcher" => result[r].exc = "ValueError"
            /\ req[r].entry = "endpoint" => result[r].http = 400

\* fetch_graph_messages was called with chat_id and team_id while the cache
\* was empty, and raised ValueError
C10_Witness ==
    \E r \in Tasks : /\ req[r].entry = "fetcher"
                     /\ req[r].chat_id /\ req[r].team_id
                     /\ cache = EmptyCache
                     /\ result[r].exc = "ValueError"

-----------------------------------------------------------------------------
(* Claims about concurrent callers and about failures *)

\* this step ends the exchange of task r with a token
ExchangeSucceeds(r) == pc[r] = "exchange" /\ tok'[r] # NoToken

(* C11: exchanges are not single-flight: two tasks that find the cache      *)
(* empty or stale each exchange; each gets the token of its own exchange     *)
(* (a token no earlier exchange issued), and the slot then holds the         *)
(* credential of the exchange that has just completed, whatever it held.     *)
C11_EachCallerOwnToken ==
    [][\A r \in Tasks :
         ExchangeSucceeds(r) =>
            /\ tok'[r] > issued
            /\ \A q \in Tasks \ {r} : tok'[r] # tok[q]
            /\ cache'.token = tok'[r]
            /\ cache'.set_at = now]_vars

\* task q is awaiting its POST while the slot holds, still valid, the
\* credential of task r's exchange: q's call missed the cache, so it began
\* before r's exchange completed, and both exchanges were in flight together
C11_Witness ==
    \E r, q \in Tasks :
        /\ r # q
        /\ pc[q] = "exchange"
        /\ posts[r] = 1 /\ tok[r] # NoToken /\ tok[r] = cache.token
        /\ CacheValid

(* C12: a page answer with a failure status other than 401, 403 and 404     *)
(* ends GET /messages with HTTP 500, whatever the body of the answer.        *)
C12_OtherStatusIs500 ==
    \A r \in Tasks :
        /\ pc[r] = "done" /\ req[r].entry = "endpoint"
        /\ LastAnswer(r) \notin {"", "200", "401", "403", "404"}
        /\ LastAnswer(r) \notin {"TimeoutException", "NetworkError"}
        => result[r].http = 500

\* every page GET of task r was answered 2xx
AllPagesOk(r) ==
    /\ answers[r] # <<>>
    /\ \A i \in 1..Len(answers[r]) : answers[r][i] = "200"

\* the `since` of the request is well-formed ISO-8601
WellFormedSince(p) == SinceGiven(p) /\ SinceDatetime(p).raised = ""

(* C13: with a well-formed `since` and pages that all answer 2xx, the fetch *)
(* succeeds whatever the createdDateTime values of the messages are.         *)
C13_FilteringNeverFails ==
    \A r \in Tasks :
        pc[r] = "done" /\ WellFormedSince(req[r]) /\ AllPagesOk(r) =>
            result[r].kind = "ok"

\* the network calls of task r so far are in sequence: one POST at most, no
\* GET without a token, one GET outstanding at most, and a GET after the
\* first only when every earlier one was answered 2xx
Sequential(r) ==
    /\ posts[r] <= 1
    /\ requested[r] # <<>> => tok[r] # NoToken /\ requested[r][1] = EndpointUrl
    /\ Len(answers[r]) <= Len(requested[r])
    /\ Len(requested[r]) <= Len(answers[r]) + 1
    /\ \A k \in 1..(Len(requested[r]) - 1) : answers[r][k] = "200"
    /\ pc[r] = "done" => Len(requested[r]) = Len(answers[r])

\* this step of task r sends no GET, or sends the one GET its state calls
\* for: the first page once it holds a token, or the continuation link of the
\* 2xx page received in this step
OneGetPerLink(r) ==
    \/ requested'[r] = requested[r]
    \/ /\ requested[r] = <<>>
       /\ requested'[r] = <<EndpointUrl>>
    \/ /\ Page200(r)
       /\ next_link'[r] # NoLink
       /\ requested'[r] = Append(requested[r], next_link'[r])

(* C14: the network calls of one fetch are sequential and never repeated:   *)
(* at most one exchange, page k+1 requested only after page k answered 2xx    *)
(* with a continuation link, one GET for each link of the chain, and no       *)
(* network call after a failed call or after the fetch has ended.             *)
C14_SequentialNoRetry ==
    /\ [](\A r \in Tasks : Sequential(r))
    /\ [][\A r \in Tasks :
            /\ OneGetPerLink(r)
            /\ pc[r] = "done" => requested'[r] = requested[r] /\ posts'[r] = posts[r]
            /\ pc[r] # "idle" => posts'[r] = posts[r]]_vars

\* a fetch that exchanged once and then got two pages, one GET each
C14_Witness ==
    \E r \in Tasks : /\ pc[r] = "done" /\ posts[r] = 1
                     /\ Len(requested[r]) = 2 /\ Len(answers[r]) = 2
                     /\ AllPagesOk(r)

PageFails(r) ==
    /\ pc[r] = "page"
    /\ Len(answers'[r]) = Len(answers[r]) + 1
    /\ answers'[r][Len(answers'[r])] # "200"

\* the message API failed task q's fetch, made with the credential the cache holds
FailedWithCached(q) ==
    /\ pc[q] = "done" /\ answers[q] # <<>> /\ LastAnswer(q) # "200"
    /\ tok[q] = cache.token

(* C16: a 401, or any other failure, of the message API leaves the token    *)
(* cache as it is, and a later request made while the credential is valid    *)
(* (now < expires_at) is given the token that just failed, without an        *)
(* exchange.                                                                  *)
C16_PageFailureKeepsCache ==
    [][\A r \in Tasks :
         /\ PageFails(r) => cache' = cache
         /\ (\E q \in Tasks : FailedWithCached(q)) /\ CacheValid /\ ReachesAuth(r) =>
               posts'[r] = posts[r] /\ tok'[r] = cache.token]_vars

\* task q was answered 401 with the token the cache still holds and still
\* serves, and task r was served that token
C16_Witness ==
    \E q, r \in Tasks :
        /\ FailedWithCached(q) /\ LastAnswer(q) = "401" /\ posts[q] = 1
        /\ CacheValid /\ now > cache.set_at
        /\ r # q /\ ServedFromCache(r)

\* this step is task r's exchange ending in a failure
ExchangeFails(r) == pc[r] = "exchange" /\ pc'[r] = "done" /\ tok'[r] = NoToken

(* C17: a failed exchange (failure status, transport failure, or a 2xx body *)
(* without access_token) leaves the cache slot as it is; the slot is written  *)
(* only by an exchange that succeeded (or emptied by clear_token_cache()),    *)
(* so after a failure an empty cache is still empty and the next              *)
(* get_access_token() call starts an exchange.                                *)
C17_ExchangeFailureKeepsCache ==
    [][/\ \A r \in Tasks : ExchangeFails(r) => cache' = cache
       /\ cache' # cache =>
            \/ cache' = EmptyCache
            \/ \E r \in Tasks : ExchangeSucceeds(r) /\ cache'.token = tok'[r]
       /\ \A r \in Tasks :
            (\E q \in Tasks : ExchangeFailed(q)) /\ cache.token = NoToken /\ ReachesAuth(r) =>
                posts'[r] = posts[r] + 1 /\ pc'[r] = "exchange"]_vars

\* task q's exchange failed, no credential was ever issued, and task r is in
\* an exchange of its own
C17_Witness ==
    \E q, r \in Tasks :
        /\ ExchangeFailed(q) /\ issued = 0 /\ cache = EmptyCache
        /\ r # q /\ pc[r] = "exchange" /\ posts[r] = 1

\* the cache holds a credential whose lifetime is no longer than the margin
ShortLivedCached == cache.token # NoToken /\ cache.expires_in <= Buffer

(* C19: a credential obtained with expires_in <= 300 is stored with an      *)
(* expires_at that is not after the moment of storing, and no call is ever   *)
(* served it: every get_access_token() call that finds it in the cache       *)
(* starts a new exchange.                                                    *)
C19_ShortLivedNeverServed ==
    /\ [](ShortLivedCached => cache.expiry <= cache.set_at /\ ~CacheValid)
    /\ [][\A r \in Tasks :
            ShortLivedCached /\ ReachesAuth(r) =>
                posts'[r] = posts[r] + 1 /\ tok'[r] = NoToken]_vars

\* task q stored a credential with expires_in = 300, and task r, calling in
\* the same second, is in an exchange of its own
C19_Witness ==
    \E q, r \in Tasks :
        /\ ShortLivedCached /\ cache.expires_in = Buffer /\ now = cache.set_at
        /\ posts[q] = 1 /\ tok[q] = cache.token
        /\ r # q /\ pc[r] = "exchange" /\ issued = 1

\* set_token has assigned the token of a new credential and not yet its
\* expiry: the slot pairs that token with the expiry of the credential before
Torn == \E q \in Tasks : pc[q] = "set_token" /\ cache.token = tok[q]

(* C18: reads and writes of the cache slot exclude each other: at most one  *)
(* set_token is inside the slot at a time, and every get_token reads a token  *)
(* and an expiry assigned by the same set_token call (or the empty slot), so  *)
(* no caller is given a token validated against another credential's expiry.  *)
C18_SlotReadsConsistent ==
    /\ [](Cardinality({q \in Tasks : pc[q] = "set_token"}) <= 1)
    /\ [][\A r \in Tasks :
            ReachesAuth(r) =>
                /\ ~Torn
                /\ tok'[r] # NoToken =>
                      /\ tok'[r] = cache.token
                      /\ now < cache.set_at + cache.expires_in - Buffer]_vars

\* task q is inside set_token with its token assigned beside the expiry of
\* the credential before, which has not passed, and task r is about to call
C18_Witness ==
    \E q, r \in Tasks :
        /\ pc[q] = "set_token" /\ cache.token = tok[q]
        /\ now < cache.expiry
        /\ r # q /\ pc[r] = "idle"

====
